---- MODULE Spec2Model ----
(***************************************************************************)
(* Model of src/states/mod.rs of survive2020: the level session timer      *)
(* (update_timer_and_set_high_score), the bootstrap helpers                *)
(* (init_timer_text, init_level_title) and the escape trigger              *)
(* (return_to_main_menu_on_escape), driven by a state manager that enters  *)
(* a level from the main menu and leaves it on Trans::Replace.             *)
(*                                                                         *)
(* Time values (f32 seconds) are multiples of 1/UnitsPerSecond second held *)
(* in a binary floating-point format with MantBits significant bits: an    *)
(* addition is rounded to nearest, ties to even, as an f32 addition is.    *)
(***************************************************************************)
EXTENDS Integers, Sequences, FiniteSets, TLC

\* ------------------------------------------------------------------ bounds
\* Grid units in one second (the grid step is 0.05 s).
UnitsPerSecond == 20
\* Significant bits of the floating-point format (f32 has 24).
MantBits == 7
\* Ticks the state manager delivers to one session.
MaxTicks == 4
\* Level sessions entered in one run of the game.
MaxSessions == 2

\* ------------------------------------------------------------------ inputs
\* c hundredths of a second, in grid units.
Centis(c) == (c * UnitsPerSecond) \div 100

Keys == {"hornets", "wildfires"}
Scores == 0..2
TransNone == "None"
TransReplaceMainMenu == "Replace(MainMenu)"
\* Option<Entity>: None, or Some(entity) as a one-element set.
NoEntity == {}
Some(entity) == {entity}
NoText == [fmt |-> "", secs |-> 0, max |-> 0]
NoSprite == "NoSprite"

\* The level states that use this module: their high-score key, MAX_TIME and title sprite.
Levels ==
    { [key |-> "hornets",   max_time |-> Centis(200), title |-> "hornets_title.png"],
      [key |-> "wildfires", max_time |-> Centis(50),  title |-> "wildfires_title.png"] }
\* Frame times of the coarse clock: a quarter of a second, a second.
Deltas == {Centis(25), Centis(100)}

\* The 5 second level and the frame times 0 (a repeated frame), 0.05 s, 0.1 s and 4.9 s.
FineLevels ==
    { [key |-> "hornets", max_time |-> Centis(500), title |-> "hornets_title.png"] }
FineDeltas == {0, Centis(5), Centis(10), Centis(490)}
FineScores == {1}

\* StateEvent values: window events (keyboard input and others), ui events, input events.
Events ==
    { [kind |-> "Window", window |-> "KeyboardInput", state |-> "Pressed",  key |-> "Escape"],
      [kind |-> "Window", window |-> "KeyboardInput", state |-> "Released", key |-> "Escape"],
      [kind |-> "Window", window |-> "KeyboardInput", state |-> "Pressed",  key |-> "Space"],
      [kind |-> "Window", window |-> "KeyboardInput", state |-> "Pressed",  key |-> "NoKeyCode"],
      [kind |-> "Window", window |-> "CloseRequested", state |-> "NoState", key |-> "NoKeyCode"],
      [kind |-> "Ui",     window |-> "NoWindowEvent",  state |-> "NoState", key |-> "NoKeyCode"],
      [kind |-> "Input",  window |-> "NoWindowEvent",  state |-> "Pressed", key |-> "Escape"] }

\* The keyboard events a player produces in a level.
KeyEvents == {e \in Events : e.kind = "Window" /\ e.state = "Pressed" /\ e.key \in {"Escape", "Space"}}

\* ------------------------------------------------------------------ f32
MaxOf(S) == CHOOSE x \in S : \A y \in S : y <= x

Pow2(n) == 2 ^ n

RECURSIVE Ulp(_)
\* Spacing of the representable values around x.
Ulp(x) == IF x < Pow2(MantBits) THEN 1 ELSE 2 * Ulp(x \div 2)

\* x rounded to the nearest representable value, ties to the even mantissa.
RoundF(x) ==
    LET u == Ulp(x)
        q == x \div u
        r == x % u
    IN  IF 2 * r < u THEN q * u
        ELSE IF 2 * r > u THEN (q + 1) * u
        ELSE IF q % 2 = 0 THEN q * u ELSE (q + 1) * u

\* f32 addition.
Fadd(a, b) == RoundF(a + b)

\* f32::floor, in whole seconds.
Floor(x) == x \div UnitsPerSecond

\* ------------------------------------------------------------------ world
\* An entity with the components this module attaches.
TimerEntity(text) == [timer |-> TRUE, title |-> FALSE, ui_text |-> text, sprite |-> NoSprite]
TitleEntity(sprite) == [timer |-> FALSE, title |-> TRUE, ui_text |-> NoText, sprite |-> sprite]

\* The index the allocator hands out: the lowest one not alive.
FreeIndex(w) ==
    CHOOSE i \in 0..Cardinality(DOMAIN w) :
        i \notin DOMAIN w /\ \A j \in 0..(i - 1) : j \in DOMAIN w

\* world.create_entity().with(..).build()
create_entity(w, comps) ==
    LET id == FreeIndex(w)
    IN  [e \in (DOMAIN w) \cup {id} |-> IF e = id THEN comps ELSE w[e]]

\* world.delete_entity(entity): Err when the entity is not alive.
delete_entity(w, entity) ==
    IF entity \in DOMAIN w
    THEN [ok |-> TRUE,  world |-> [e \in (DOMAIN w) \ {entity} |-> w[e]]]
    ELSE [ok |-> FALSE, world |-> w]

TimerEntities(w) == {e \in DOMAIN w : w[e].timer}
TitleEntities(w) == {e \in DOMAIN w : w[e].title}

\* delete_all_entities_with_component::<LevelTitle>(world)
delete_all_entities_with_component_LevelTitle(w) ==
    [e \in (DOMAIN w) \ TitleEntities(w) |-> w[e]]

\* update_high_score_if_greater(world, key, score)
update_high_score_if_greater(hs, key, score) ==
    [hs EXCEPT ![key] = IF score > @ THEN score ELSE @]

\* ------------------------------------------------------------------ helpers
\* format!("0s /{}s", max_seconds)
InitialTimerText(max_seconds) == [fmt |-> "0s /{}s", secs |-> 0, max |-> max_seconds]

\* Slip: the elapsed time is rounded to the nearest second, not floored.
TimerTextRounded(elapsed_time, max_time) ==
    [fmt |-> "{}s / {}s", secs |-> (2 * elapsed_time + UnitsPerSecond) \div (2 * UnitsPerSecond),
     max |-> max_time]

\* format!("{}s / {}s", elapsed_time.floor(), max_time)
TimerText(elapsed_time, max_time) ==
    [fmt |-> "{}s / {}s", secs |-> Floor(elapsed_time), max |-> max_time]

init_timer_text(w, max_seconds) ==
    create_entity(w, TimerEntity(InitialTimerText(max_seconds)))

\* Slip: the previous titles are not deleted first.
init_level_title_keeping_old(w, filename) == create_entity(w, TitleEntity(filename))

init_level_title(w, filename) ==
    create_entity(delete_all_entities_with_component_LevelTitle(w), TitleEntity(filename))

\* ------------------------------------------------------------------ the tick
\* Slip: the new time is the frame's delta alone, the old time is not added.
new_time_without_old(elapsed_time, delta_seconds) == RoundF(delta_seconds)

\* let new_time = *elapsed_time + delta_seconds
new_time(elapsed_time, delta_seconds) == Fadd(elapsed_time, delta_seconds)

\* Slip: any advance of the time counts, not only one into a new whole second.
time_changed_at_all(elapsed_time, nt) == nt > elapsed_time

\* new_time.floor() > elapsed_time.floor()
time_changed_by_a_second(elapsed_time, nt) == Floor(nt) > Floor(elapsed_time)

\* Slip: the boundary value max_time itself does not count as over.
level_is_over_strict(elapsed_time, max_time) == elapsed_time > max_time

\* *elapsed_time >= max_time, on the value before the update
level_is_over(elapsed_time, max_time) == elapsed_time >= max_time

\* The entities the join (&mut ui_texts, &timer_components, &entities) visits.
JoinTimers(w) == {e \in DOMAIN w : w[e].timer /\ w[e].ui_text # NoText}

\* The loop body's write, applied to every joined entity.
RewriteTimers(w, text) ==
    [e \in DOMAIN w |-> IF e \in JoinTimers(w) THEN [w[e] EXCEPT !.ui_text = text] ELSE w[e]]

\* The least element of a set of numbers.
MinOf(S) == CHOOSE x \in S : \A y \in S : x <= y

\* Slip: the first joined entity is kept (the loop stops at it), not the last.
timer_entity_first(w, rewrite, over) ==
    IF rewrite /\ over /\ JoinTimers(w) # {} THEN Some(MinOf(JoinTimers(w))) ELSE NoEntity

\* The block's value: the last joined entity when the level is over, else None.
timer_entity(w, rewrite, over) ==
    IF rewrite /\ over /\ JoinTimers(w) # {} THEN Some(MaxOf(JoinTimers(w))) ELSE NoEntity

\* Slip: the update is invoked on every tick, outside the level_is_over branch.
CommitHighScoreEveryTick(hs, over, high_score_key, score) ==
    [high_scores |-> update_high_score_if_greater(hs, high_score_key, score),
     calls |-> << <<high_score_key, score>> >>]

\* Slip: the condition is inverted, the update is invoked while the level runs.
CommitHighScoreWhileRunning(hs, over, high_score_key, score) ==
    IF ~over
    THEN [high_scores |-> update_high_score_if_greater(hs, high_score_key, score),
          calls |-> << <<high_score_key, score>> >>]
    ELSE [high_scores |-> hs, calls |-> <<>>]

\* if level_is_over { update_high_score_if_greater(world, high_score_key, score); .. }
CommitHighScore(hs, over, high_score_key, score) ==
    IF over
    THEN [high_scores |-> update_high_score_if_greater(hs, high_score_key, score),
          calls |-> << <<high_score_key, score>> >>]
    ELSE [high_scores |-> hs, calls |-> <<>>]

\* Slip: timer_entity is unwrapped instead of matched, so None is an error.
DeleteTimerEntityUnwrapped(w, entity) ==
    IF entity # NoEntity
    THEN delete_entity(w, CHOOSE e \in entity : TRUE)
    ELSE [ok |-> FALSE, world |-> w]

\* if let Some(entity) = timer_entity { world.delete_entity(entity).expect(..) }
DeleteTimerEntity(w, entity) ==
    IF entity # NoEntity
    THEN delete_entity(w, CHOOSE e \in entity : TRUE)
    ELSE [ok |-> TRUE, world |-> w]

\* Slip: the block runs only when a whole second has passed, "|| level_is_over"
\* is missing from its condition.
RefreshOnSecondOnlyAndFinish(w, hs, nt, changed, over, max_time, score, high_score_key) ==
    LET rewrite == changed
        w1      == IF rewrite THEN RewriteTimers(w, TimerText(nt, max_time)) ELSE w
        entity  == timer_entity(w, rewrite, over)
        commit  == CommitHighScore(hs, over, high_score_key, score)
        del     == IF over THEN DeleteTimerEntity(w1, entity) ELSE [ok |-> TRUE, world |-> w1]
    IN  [ world        |-> del.world,
          high_scores  |-> commit.high_scores,
          elapsed_time |-> nt,
          trans        |-> IF over THEN TransReplaceMainMenu ELSE TransNone,
          rewritten    |-> IF rewrite THEN JoinTimers(w) ELSE {},
          calls        |-> commit.calls,
          deleted      |-> IF over /\ del.ok THEN entity ELSE {},
          panicked     |-> ~del.ok ]

\* The function from the timer_entity block on: nt is the updated elapsed time,
\* changed and over were computed before the update.
RefreshAndFinish(w, hs, nt, changed, over, max_time, score, high_score_key) ==
    LET rewrite == changed \/ over
        w1      == IF rewrite THEN RewriteTimers(w, TimerText(nt, max_time)) ELSE w
        entity  == timer_entity(w, rewrite, over)
        commit  == CommitHighScore(hs, over, high_score_key, score)
        del     == IF over THEN DeleteTimerEntity(w1, entity) ELSE [ok |-> TRUE, world |-> w1]
    IN  [ world        |-> del.world,
          high_scores  |-> commit.high_scores,
          elapsed_time |-> nt,
          trans        |-> IF over THEN TransReplaceMainMenu ELSE TransNone,
          rewritten    |-> IF rewrite THEN JoinTimers(w) ELSE {},
          calls        |-> commit.calls,
          deleted      |-> IF over /\ del.ok THEN entity ELSE {},
          panicked     |-> ~del.ok ]

\* Slip: level_is_over is computed after the assignment, on the updated time.
update_timer_test_after_assign(w, hs, elapsed_time, max_time, score, high_score_key, delta_seconds) ==
    RefreshAndFinish(w, hs, new_time(elapsed_time, delta_seconds),
        time_changed_by_a_second(elapsed_time, new_time(elapsed_time, delta_seconds)),
        level_is_over(new_time(elapsed_time, delta_seconds), max_time),
        max_time, score, high_score_key)

\* One call; delta_seconds is the Time resource's delta of this frame.
update_timer_and_set_high_score(w, hs, elapsed_time, max_time, score, high_score_key, delta_seconds) ==
    RefreshAndFinish(w, hs, new_time(elapsed_time, delta_seconds),
        time_changed_by_a_second(elapsed_time, new_time(elapsed_time, delta_seconds)),
        level_is_over(elapsed_time, max_time), max_time, score, high_score_key)

\* ------------------------------------------------------------------ the escape trigger
\* amethyst::input::is_key_down(event, key_code)
is_key_down(event, key_code) ==
    event.window = "KeyboardInput" /\ event.key = key_code /\ event.state = "Pressed"

\* Slip: the key's state is not looked at, a released Escape counts too.
return_to_main_menu_on_any_escape(event) ==
    IF event.kind = "Window" /\ event.window = "KeyboardInput" /\ event.key = "Escape"
    THEN TransReplaceMainMenu
    ELSE TransNone

return_to_main_menu_on_escape(event) ==
    IF event.kind = "Window"
    THEN IF is_key_down(event, "Escape") THEN TransReplaceMainMenu ELSE TransNone
    ELSE TransNone

\* ------------------------------------------------------------------ state
VARIABLES
    state,          \* the state manager's current state: "MainMenu" or "Level"
    world,          \* live entities and their components
    high_scores,    \* the high-score resource: key -> best score
    elapsed_time,   \* the level state's elapsed_time slot
    level,          \* the level entered last: key, max_time, title
    hist,           \* the ticks of the current session: [pre, delta, trans]
    commits,        \* the high-score updates invoked in the current session
    last,           \* what the last operation was given and did
    hs_init,        \* the high-score resource as loaded
    reported,       \* key -> the greatest score passed on an expiring tick, -1 if none
    sessions,       \* sessions entered so far
    title_calls,    \* the filenames init_level_title was called with, in order
    timer_per_entry, \* every session entry so far called init_timer_text
    readout,        \* the entity init_timer_text created on the last entry, if any
    frame           \* the parity of the number of frames ticked since the last entry

vars == <<state, world, high_scores, elapsed_time, level, hist, commits, last,
          hs_init, reported, sessions, title_calls, timer_per_entry, readout, frame>>

NoEvent == [kind |-> "NoEvent", window |-> "NoWindowEvent", state |-> "NoState", key |-> "NoKeyCode"]

Observation(op) ==
    [ op |-> op, event |-> NoEvent, pre |-> 0, post |-> 0, delta |-> 0, score |-> 0,
      trans |-> TransNone, live_before |-> {}, timers_before |-> {}, rewritten |-> {}, text_before |-> <<>>,
      calls |-> <<>>, deleted |-> {}, panicked |-> FALSE ]

InitLevel == [key |-> "hornets", max_time |-> 0, title |-> "main_menu_title.png"]

Init ==
    /\ state = "MainMenu"
    /\ world = <<>>
    /\ hs_init \in {[k \in Keys |-> 0], [k \in Keys |-> IF k = "hornets" THEN 1 ELSE 0]}
    /\ high_scores = hs_init
    /\ elapsed_time = 0
    /\ level = InitLevel
    /\ hist = <<>>
    /\ commits = <<>>
    /\ last = Observation("init")
    /\ reported = [k \in Keys |-> -1]
    /\ sessions = 0
    /\ title_calls = <<>>
    /\ timer_per_entry = TRUE
    /\ readout = NoEntity
    /\ frame = 0

\* A level state's on_start: the title, the timer readout (when the level shows one)
\* and a zeroed elapsed_time.
StartSessionOf(L, T) ==
    \E lv \in L, with_timer \in T :
        /\ state = "MainMenu"
        /\ sessions < MaxSessions
        /\ LET w1 == init_level_title(world, lv.title)
               w2 == IF with_timer THEN init_timer_text(w1, lv.max_time) ELSE w1
           IN  /\ world' = w2
               /\ readout' = IF with_timer THEN Some(FreeIndex(w1)) ELSE NoEntity
        /\ state' = "Level"
        /\ level' = lv
        /\ elapsed_time' = 0
        /\ frame' = 0
        /\ hist' = <<>>
        /\ commits' = <<>>
        /\ sessions' = sessions + 1
        /\ title_calls' = Append(title_calls, lv.title)
        /\ timer_per_entry' = (timer_per_entry /\ with_timer)
        /\ last' = Observation("start")
        /\ UNCHANGED <<high_scores, hs_init, reported>>

\* The level state's update: one call of update_timer_and_set_high_score, whose
\* decision the state manager applies.
TickStep(delta, score, recorded) ==
        /\ state = "Level"
        /\ LET r == update_timer_and_set_high_score(world, high_scores, elapsed_time,
                        level.max_time, score, level.key, delta)
           IN  /\ world' = r.world
               /\ high_scores' = r.high_scores
               /\ elapsed_time' = r.elapsed_time
               /\ frame' = 1 - frame
               /\ state' = IF r.trans = TransReplaceMainMenu THEN "MainMenu" ELSE "Level"
               /\ hist' = IF recorded
                           THEN Append(hist, [pre |-> elapsed_time, delta |-> delta, trans |-> r.trans])
                           ELSE hist
               /\ commits' = commits \o r.calls
               /\ reported' = IF elapsed_time >= level.max_time
                              THEN [reported EXCEPT ![level.key] = IF score > @ THEN score ELSE @]
                              ELSE reported
               /\ last' = [ Observation("tick") EXCEPT
                              !.pre = elapsed_time, !.post = r.elapsed_time, !.delta = delta,
                              !.score = score, !.trans = r.trans,
                              !.live_before = DOMAIN world,
                              !.timers_before = TimerEntities(world),
                              !.rewritten = r.rewritten,
                              !.text_before = [e \in TimerEntities(world) |-> world[e].ui_text],
                              !.calls = r.calls, !.deleted = r.deleted,
                              !.panicked = r.panicked ]
        /\ UNCHANGED <<level, hs_init, sessions, title_calls, timer_per_entry, readout>>

\* The ticks of a session, of which the model records at most MaxTicks.
TickOf(D, S) ==
    \E delta \in D, score \in S :
        /\ Len(hist) < MaxTicks
        /\ TickStep(delta, score, TRUE)

\* The level state's handle_event: return_to_main_menu_on_escape decides.
HandleEventOf(E) ==
    \E event \in E :
        /\ state = "Level"
        /\ LET t == return_to_main_menu_on_escape(event)
           IN  /\ state' = IF t = TransReplaceMainMenu THEN "MainMenu" ELSE "Level"
               /\ last' = [Observation("event") EXCEPT !.event = event, !.trans = t]
        /\ UNCHANGED <<world, high_scores, elapsed_time, level, hist, commits,
                       hs_init, reported, sessions, title_calls, timer_per_entry, readout, frame>>

\* The game: both levels, with or without a readout, a coarse clock, keyboard events.
StartSession == StartSessionOf(Levels, BOOLEAN)
Tick == TickOf(Deltas, Scores)
HandleEvent == HandleEventOf(KeyEvents)

Next == StartSession \/ Tick \/ HandleEvent

Spec == Init /\ [][Next]_vars

\* The 5 second level on the fine clock, every kind of event.
StartFineSession == StartSessionOf(FineLevels, {TRUE})
FineTick == TickOf(FineDeltas, FineScores)
HandleAnyEvent == HandleEventOf(Events)

NextFine == StartFineSession \/ FineTick \/ HandleAnyEvent

SpecFine == Init /\ [][NextFine]_vars

\* The same operations in sessions that are ticked on every frame and are not
\* left through Escape. frame_times are the frame times the clock produces
\* while the level runs ({0}: the clock stands still); the MAX_TIME of the
\* second and third level lies past the time from which on the shortest frame
\* time of LiveDeltas is rounded away.
LiveDeltas == {0, Centis(5), Centis(100)}
LiveScores == {1}
LiveLevels ==
    { [key |-> "hornets",   max_time |-> Centis(50),         title |-> "hornets_title.png",
       frame_times |-> LiveDeltas \ {0}],
      [key |-> "hornets",   max_time |-> Pow2(MantBits) + 2, title |-> "hornets_title.png",
       frame_times |-> {Centis(5)}],
      [key |-> "wildfires", max_time |-> Pow2(MantBits) + 2, title |-> "wildfires_title.png",
       frame_times |-> {Centis(100)}],
      [key |-> "wildfires", max_time |-> Centis(50),         title |-> "wildfires_title.png",
       frame_times |-> {0}] }

StartLiveSession == StartSessionOf(LiveLevels, {TRUE})
LiveTick ==
    /\ state = "Level"
    /\ \E delta \in level.frame_times, score \in LiveScores : TickStep(delta, score, FALSE)

NextLive == StartLiveSession \/ LiveTick

\* The level state's update runs on every frame.
SpecLive == Init /\ [][NextLive]_vars /\ WF_vars(LiveTick)

\* ------------------------------------------------------------------ properties
Trans == {TransNone, TransReplaceMainMenu}

\* The elapsed time after tick i of the current session.
PostOf(i) == IF i < Len(hist) THEN hist[i + 1].pre ELSE elapsed_time

\* The deltas and the decisions of the current session's ticks, in order.
DeltasOf(h) == [i \in 1..Len(h) |-> h[i].delta]
DecisionsOf(h) == [i \in 1..Len(h) |-> h[i].trans]

RECURSIVE SumOf(_)
\* The exact sum of a sequence of numbers.
SumOf(q) == IF q = <<>> THEN 0 ELSE q[1] + SumOf(Tail(q))

RECURSIVE AccumulateF(_, _)
\* a plus the numbers of q, added one after the other in f32 arithmetic.
AccumulateF(a, q) == IF q = <<>> THEN a ELSE AccumulateF(RoundF(a + q[1]), Tail(q))

\* C1: in every session, a tick returns Replace(MainMenu) exactly when the
\* elapsed time held before that tick is >= max_time and None otherwise; the
\* tick that takes the elapsed time from below max_time to max_time or above
\* returns None, and the tick after it is the first to return Replace(MainMenu).
C1_ExpiryOnPreTickTime ==
    /\ \A i \in 1..Len(hist) :
          /\ hist[i].trans \in Trans
          /\ hist[i].trans = TransReplaceMainMenu <=> hist[i].pre >= level.max_time
    /\ \A i \in 1..Len(hist) :
          (hist[i].pre < level.max_time /\ PostOf(i) >= level.max_time) =>
              /\ \A j \in 1..i : hist[j].trans = TransNone
              /\ i < Len(hist) => hist[i + 1].trans = TransReplaceMainMenu

\* C1 witness: a session whose elapsed time crossed max_time on one tick and
\* which was ticked once more.
C1_Witness ==
    \E i \in 1..Len(hist) :
        /\ i < Len(hist)
        /\ hist[i].pre < level.max_time
        /\ hist[i + 1].pre > level.max_time

\* The session of C2: max_time 5.0 and the deltas 4.9, 0.05, 0.1 from elapsed_time 0.
C2_Scenario ==
    /\ level.max_time = Centis(500)
    /\ Len(hist) >= 3
    /\ hist[1].pre = 0
    /\ SubSeq(DeltasOf(hist), 1, 3) = <<Centis(490), Centis(5), Centis(10)>>

\* C2 as stated: the three ticks of the scenario return None, None,
\* Replace(MainMenu).
C2_AsStated ==
    C2_Scenario =>
        SubSeq(DecisionsOf(hist), 1, 3) = <<TransNone, TransNone, TransReplaceMainMenu>>

\* C2 amended: the three ticks of the scenario return None, None, None (the
\* elapsed time is 4.95 before the third tick and 5.05 after it), and a fourth
\* tick returns Replace(MainMenu).
C2_ThreeNoneThenReplace ==
    C2_Scenario =>
        /\ SubSeq(DecisionsOf(hist), 1, 3) = <<TransNone, TransNone, TransNone>>
        /\ hist[3].pre < level.max_time
        /\ PostOf(3) = Centis(490) + Centis(5) + Centis(10)
        /\ PostOf(3) >= level.max_time
        /\ Len(hist) >= 4 => hist[4].trans = TransReplaceMainMenu

\* C2 witness: the scenario followed by a fourth tick.
C2_Witness == C2_Scenario /\ Len(hist) = 4

\* C3: while a session runs no high-score update has been invoked; once a tick
\* has returned Replace(MainMenu) the update has been invoked exactly once in
\* the session, with the session's key and the score passed to that tick.
C3_CommitExactlyOnce ==
    /\ Len(commits) <= 1
    /\ (\A i \in 1..Len(hist) : hist[i].trans = TransNone) => commits = <<>>
    /\ (last.op = "tick" /\ last.trans = TransReplaceMainMenu) =>
           /\ commits = << <<level.key, last.score>> >>
           /\ last.calls = commits

\* C3 witness: a session expired on its third tick or later, with score 2.
C3_Witness ==
    /\ last.op = "tick"
    /\ last.trans = TransReplaceMainMenu
    /\ Len(hist) >= 3
    /\ last.score = 2

C5_AtMostOneTimerEntity ==
    timer_per_entry => Cardinality(TimerEntities(world)) <= 1

\* C6: the number of LevelTitle entities is zero or one in every state: zero
\* before the first init_level_title call, and exactly one after any call, the
\* one showing the asset of the most recent call.
C6_OneLevelTitle ==
    /\ Cardinality(TitleEntities(world)) <= 1
    /\ title_calls = <<>> => TitleEntities(world) = {}
    /\ title_calls # <<>> =>
           \E e \in DOMAIN world :
               /\ TitleEntities(world) = {e}
               /\ world[e].sprite = title_calls[Len(title_calls)]

\* C6 witness: init_level_title was called twice, with different assets.
C6_Witness ==
    /\ Len(title_calls) = 2
    /\ title_calls[1] # title_calls[2]

\* The last operation was a tick that found the session expired.
ExpiringTick == last.op = "tick" /\ last.pre >= level.max_time

\* C7: a tick that finds the session expired while no TimerComponent entity
\* exists does not panic, deletes no entity, invokes the high-score update with
\* the key and the score, and returns Replace(MainMenu).
C7_ExpiryWithoutTimerEntity ==
    (ExpiringTick /\ last.timers_before = {}) =>
        /\ ~last.panicked
        /\ last.deleted = {}
        /\ DOMAIN world = last.live_before
        /\ last.calls = << <<level.key, last.score>> >>
        /\ high_scores[level.key] >= last.score
        /\ last.trans = TransReplaceMainMenu

\* C7 witness: a session entered without a timer readout has expired.
C7_Witness ==
    /\ ExpiringTick
    /\ last.timers_before = {}
    /\ last.score > hs_init[level.key]

\* The text the tick writes: whole seconds of the updated time, and max_time.
WrittenText == [fmt |-> "{}s / {}s", secs |-> last.post \div UnitsPerSecond, max |-> level.max_time]

SameSecond == last.pre \div UnitsPerSecond = last.post \div UnitsPerSecond
NextSecond == last.post \div UnitsPerSecond > last.pre \div UnitsPerSecond

\* The tick rewrote every timer readout, and those still alive show WrittenText.
AllRewritten ==
    /\ last.rewritten = last.timers_before
    /\ \A e \in last.timers_before \cap DOMAIN world : world[e].ui_text = WrittenText

\* The tick rewrote no timer readout: those still alive show the text they had.
NoneRewritten ==
    /\ last.rewritten = {}
    /\ \A e \in last.timers_before \cap DOMAIN world : world[e].ui_text = last.text_before[e]

\* C8 as stated: a tick that stays within one whole second rewrites no timer
\* text; a tick that reaches a later whole second rewrites it to the new whole
\* second and max_time.
C8_AsStated ==
    last.op = "tick" =>
        /\ SameSecond => NoneRewritten
        /\ NextSecond => AllRewritten

\* C8 amended: a tick that stays within one whole second and does not find the
\* session expired rewrites no timer text; a tick that reaches a later whole
\* second, or that finds the session expired, rewrites the text of every
\* TimerComponent entity to the new whole second and max_time.
C8_ThrottledUnlessExpired ==
    last.op = "tick" =>
        /\ (SameSecond /\ last.pre < level.max_time) => NoneRewritten
        /\ (NextSecond \/ last.pre >= level.max_time) => AllRewritten

\* C8 witness: a tick within one whole second found the session expired and
\* wrote a text that differs from the one the timer readout showed.
C8_Witness ==
    /\ ExpiringTick
    /\ SameSecond
    /\ last.delta > 0
    /\ \E e \in last.timers_before : last.text_before[e] # WrittenText

\* C9: the stored high score of every key is the maximum of its initial value
\* and the scores passed for that key on expiring ticks; no step lowers a
\* stored value; a tick changes no key but the session's.
C9_HighScoreIsMaximum ==
    /\ [](\A k \in Keys : high_scores[k] = MaxOf({hs_init[k], reported[k]}))
    /\ [][\A k \in Keys : high_scores'[k] >= high_scores[k]]_vars
    /\ [][hist' # hist => \A k \in Keys \ {level.key} : high_scores'[k] = high_scores[k]]_vars

\* C9 witness: two sessions have expired, one committing a score below the
\* stored value of its key, the other one above.
C9_Witness ==
    /\ reported["hornets"] = 0
    /\ hs_init["hornets"] = 1
    /\ reported["wildfires"] = 2

\* The event is a window event saying that the Escape key is pressed down.
EscapeKeyDown(event) ==
    /\ event.kind = "Window"
    /\ event.window = "KeyboardInput"
    /\ event.state = "Pressed"
    /\ event.key = "Escape"

\* C10: the decision on an event is Replace(MainMenu) when the event is a
\* window event for Escape pressed down and None for every other event;
\* handling an event leaves the world, the elapsed time and the high scores
\* unchanged, and handling the same event again gives the same decision.
C10_EscapeTriggerPure ==
    /\ [](last.op = "event" =>
            last.trans = IF EscapeKeyDown(last.event) THEN TransReplaceMainMenu ELSE TransNone)
    /\ [][last'.op = "event" => UNCHANGED <<world, elapsed_time, high_scores>>]_vars
    /\ [][(last.op = "event" /\ last'.op = "event" /\ last'.event = last.event) =>
            last'.trans = last.trans]_vars

\* C10 witness: Escape pressed down in a session that has been ticked, after
\* another event was handled.
C10_Witness ==
    /\ last.op = "event"
    /\ EscapeKeyDown(last.event)
    /\ state = "MainMenu"
    /\ Len(hist) >= 1

\* C11: a tick that starts with exactly one TimerComponent entity deletes it
\* when, and only when, it returns Replace(MainMenu): a tick that returns None
\* deletes nothing and leaves the entity alive, the tick that returns
\* Replace(MainMenu) deletes that entity, once, and leaves no TimerComponent
\* entity.
C11_SingleTimerDeletedOnExpiry ==
    (last.op = "tick" /\ Cardinality(last.timers_before) = 1) =>
        /\ last.trans = TransNone =>
               /\ last.deleted = {}
               /\ TimerEntities(world) = last.timers_before
        /\ last.trans = TransReplaceMainMenu =>
               /\ last.pre >= level.max_time
               /\ last.deleted = last.timers_before
               /\ TimerEntities(world) = {}
               /\ DOMAIN world = last.live_before \ last.timers_before
        /\ \A i \in 1..(Len(hist) - 1) : hist[i].trans = TransNone

\* C11 witness: a session with one timer readout expired on a tick that stayed
\* within one whole second, after at least two earlier ticks.
C11_Witness ==
    /\ ExpiringTick
    /\ Cardinality(last.timers_before) = 1
    /\ SameSecond
    /\ Len(hist) >= 3

\* C12: an expiring tick that starts with two or more TimerComponent entities
\* rewrites the text of all of them and deletes one only, the last the join
\* visits, so that all the others still exist after it.
C12_OnlyLastTimerDeleted ==
    (ExpiringTick /\ Cardinality(last.timers_before) >= 2) =>
        /\ last.trans = TransReplaceMainMenu
        /\ last.rewritten = last.timers_before
        /\ last.deleted = {MaxOf(last.timers_before)}
        /\ TimerEntities(world) = last.timers_before \ last.deleted
        /\ Cardinality(TimerEntities(world)) = Cardinality(last.timers_before) - 1
        /\ \A e \in TimerEntities(world) : world[e].ui_text = WrittenText

\* C12 witness: a session expired while two TimerComponent entities existed.
C12_Witness ==
    /\ ExpiringTick
    /\ Cardinality(last.timers_before) = 2

\* C13: in a session that init_timer_text opened at elapsed_time = 0 and whose
\* deltas are never negative, the readout entity of that session, as long as it
\* exists, shows floor(elapsed_time) as its seconds and max_time as its
\* maximum, before the first tick and after every tick.
C13_ReadoutNeverStale ==
    \A e \in readout \cap DOMAIN world :
        /\ world[e].timer
        /\ world[e].ui_text.secs = Floor(elapsed_time)
        /\ world[e].ui_text.max = level.max_time
        /\ (last.op = "tick" /\ last.rewritten = {}) => world[e].ui_text = last.text_before[e]

\* C13 witness: past the first second, a tick that crossed no second and did
\* not expire left the session's readout unwritten.
C13_Witness ==
    /\ last.op = "tick"
    /\ last.trans = TransNone
    /\ last.rewritten = {}
    /\ last.post > last.pre
    /\ Floor(elapsed_time) >= 1
    /\ readout # NoEntity
    /\ readout \subseteq DOMAIN world

\* C14: a tick that returns None leaves the high-score store, the set of live
\* entities and every entity without TimerComponent (the LevelTitle entities)
\* as they were, invokes no high-score update and deletes nothing; of the
\* entities with TimerComponent it may change the text only, and of the level
\* state the elapsed time only.
C14_NoneTickFrame ==
    [][ (last'.op = "tick" /\ last'.trans = TransNone) =>
            /\ high_scores' = high_scores
            /\ commits' = commits
            /\ DOMAIN world' = DOMAIN world
            /\ \A e \in DOMAIN world :
                   /\ ~world[e].timer => world'[e] = world[e]
                   /\ world[e].timer => world'[e] = [world[e] EXCEPT !.ui_text = world'[e].ui_text]
            /\ TitleEntities(world') = TitleEntities(world)
            /\ state' = state
            /\ level' = level
      ]_vars

\* C14 witness: a tick returned None after rewriting a timer text, with a
\* LevelTitle entity alive and a positive score offered.
C14_Witness ==
    /\ last.op = "tick"
    /\ last.trans = TransNone
    /\ last.rewritten # {}
    /\ last.score > high_scores[level.key]
    /\ TitleEntities(world) # {}
    /\ \E e \in last.rewritten : world[e].ui_text # last.text_before[e]

\* The running session has ended on a tick that returned Replace(MainMenu),
\* with the high score committed and the session's timer readout deleted.
Expired ==
    /\ state = "MainMenu"
    /\ last.op = "tick"
    /\ last.trans = TransReplaceMainMenu
    /\ commits = << <<level.key, last.score>> >>
    /\ high_scores[level.key] >= last.score
    /\ last.deleted = readout
    /\ readout \cap DOMAIN world = {}

\* A session whose clock stands still is running and has never expired.
StandingStill ==
    /\ state = "Level"
    /\ elapsed_time = 0
    /\ commits = <<>>
    /\ readout \subseteq DOMAIN world
    /\ last.op = "tick" => last.trans = TransNone

\* The shortest frame advances every f32 elapsed time below max_time.
Advances(lv) ==
    \A t \in 0..(lv.max_time - 1) : RoundF(t) = t => Fadd(t, MinOf(lv.frame_times)) > t

\* Every frame time of the running level is at least a fixed positive amount.
PositiveFrames == state = "Level" /\ MinOf(level.frame_times) > 0

\* Every frame time of the level entered last is zero.
ZeroFrames == sessions >= 1 /\ level.frame_times = {0}

\* C15 as stated: whenever every delta is at least a fixed positive amount, a
\* tick eventually returns Replace(MainMenu) with the high score committed and
\* the readout deleted; with deltas that are all zero the session never expires.
C15_AsStated ==
    /\ PositiveFrames ~> Expired
    /\ [](ZeroFrames => StandingStill)

\* C15, amended: the session expires (Replace(MainMenu), high score committed,
\* readout deleted) when every delta is at least a fixed positive amount that
\* still advances every f32 elapsed time below max_time; with deltas that are
\* all zero and a positive max_time the session never expires.
C15_ExpiresWhileTimeAdvances ==
    /\ (PositiveFrames /\ Advances(level)) ~> Expired
    /\ [](ZeroFrames /\ level.max_time > 0 => StandingStill)

\* C15 witness: a session whose max_time lies past the exactly counted range
\* expired under frames long enough to keep advancing.
C15_Witness ==
    /\ Expired
    /\ MinOf(level.frame_times) > 0
    /\ level.max_time > Pow2(MantBits)
    /\ elapsed_time >= level.max_time

====
